---- MODULE Spec2Model ----
(***************************************************************************)
(* Model of clap_detection.ino: an HC-SR04 sensor with a blocked           *)
(* transmitter is polled in loop(); a short echo pulse is taken as a       *)
(* sound, its distance in time to the previous sound is stored in a ring   *)
(* of 128 samples, and detect_clap_sequence searches the ring, newest      *)
(* sample first, for the configured rhythm.                                *)
(***************************************************************************)
EXTENDS Integers, Naturals, Sequences, FiniteSets, TLC

(***************************************************************************)
(* Program constants.                                                      *)
(***************************************************************************)
SERVO_MIN_ANGLE == 10
SERVO_MAX_ANGLE == 150
ULTRASONIC_TIMEOUT == 133000
BROWNOUT == 720
buffer_size == 128
clap_sequence_timings == <<1000, 1000>>   \* C index k is TLA+ index k + 1
clap_sequence_size == 3
max_clap_deviation == 200
\* the scan limit taken from the capacity of the ring: a quarter of it
ScanLimit_FromCapacity == buffer_size \div 4 - 1
ScanLimit == 15                           \* the literal of `buffer_position > 15`
UIntBits == 16                            \* width of unsigned int on the AVR target
UIntMod == 2 ^ UIntBits

(***************************************************************************)
(* Bounds of the model and the inputs it draws.                            *)
(***************************************************************************)
MaxEvents == 5          \* accepted sounds per behaviour
MaxInserts == 130       \* inserts into the ring taken alone: past one wrap
FreeInserts == 3        \* of these, the first few choose between two samples
MaxNoise == 40          \* accepted sounds of one stream of sustained noise
\* millis() at the first accepted sound
StartTimes == {500}
\* millis() may tick between the static initialiser and the next read
FirstSkew == {0, 1}
\* time between two accepted sounds, in ms: noise, both ends of the band
\* 1000 +- 200, the target, and a pause of more than 2^16 ms
Delays == {400, 800, 1000, 1200, 66536}
\* the delays of the worked scenarios
ScenarioDelays == {430, 600, 1020, 1030, 1480}
\* spacing of a stream of sustained noise, in ms: each above the 60 ms the
\* LED blink takes and at most the width of the tolerance band
NoiseDelays == {80, 100, 400}
\* pulseIn() results, in us, on both sides of ULTRASONIC_TIMEOUT
Pulses == {132999, 133000}
\* analogRead(BROWNOUT_DETECT_PIN) results on both sides of BROWNOUT
Rails == {719, 720, 721}

VARIABLES
  pc,                \* "setup" before setup() has run, "loop" after
  clap,              \* the circular_buffer: [head, tail, data]
  started,           \* the static last_clap_time has been initialised
  last_clap_time,    \* static of on_sound_detected
  claw_state,        \* static of on_sequence_detected
  servo_angle,       \* last angle written to the servo, -1 before any write
  led,               \* level of LED_PIN
  pulse_duration,    \* loop(): pulseIn() result of the last cycle
  rail,              \* loop(): analogRead(BROWNOUT_DETECT_PIN) of the last cycle
  admitted,          \* the last cycle called on_sound_detected
  detected_sequence, \* on_sound_detected: result of the last matcher call
  seen,              \* the ring as the last matcher call found it
  scan,              \* ages the last matcher call read, in order
  targets,           \* the target index each of those reads was compared with
  trace,             \* the steps of the last on_sound_detected call, in order
  matches,           \* number of matcher calls that returned true
  flips,             \* number of on_sequence_detected calls
  servo_writes,      \* number of servo.write calls
  n_events,          \* number of accepted sounds so far
  history,           \* the samples inserted so far, newest first
  fresh              \* samples inserted since the ring was last cleared,
                     \* counted when the matcher was last called

vars == <<pc, clap, started, last_clap_time, claw_state, servo_angle, led,
          pulse_duration, rail, admitted, detected_sequence, seen, scan,
          n_events, history, fresh, targets, trace, matches, flips,
          servo_writes>>

Slots == 0 .. (buffer_size - 1)

(***************************************************************************)
(* Unsigned arithmetic of the target.                                      *)
(***************************************************************************)
UInt(x) == x % UIntMod

RECURSIVE BitAnd(_, _)
\* a & b of two unsigned values, bit by bit from the lowest
BitAnd(a, b) ==
  IF a = 0 \/ b = 0 THEN 0
  ELSE ((a % 2) * (b % 2)) + 2 * BitAnd(a \div 2, b \div 2)

(***************************************************************************)
(* circular_buffer<unsigned long, 128>                                     *)
(***************************************************************************)
EmptyBuffer == [head |-> 0, tail |-> 0, data |-> [i \in Slots |-> 0]]

\* the loop of clear() started at slot 1
clear_SkipsFirst(c, value) ==
  [c EXCEPT !.data = [i \in Slots |-> IF i = 0 THEN c.data[i] ELSE value]]

clear(c, value) == [c EXCEPT !.data = [i \in Slots |-> value]]

\* an insert that forgets head++
insert_NoAdvance(c, element) ==
  [c EXCEPT !.data = [c.data EXCEPT ![c.head] = element]]

insert(c, element) ==
  [c EXCEPT !.data = [c.data EXCEPT ![c.head] = element],
            !.head = IF c.head + 1 >= buffer_size THEN 0 ELSE c.head + 1]

\* the index expression without its - 1
SlotOf_OffByOne(c, index) == BitAnd(UInt(c.head - index), buffer_size - 1)

\* operator[]: the slot of the sample `index` inserts back
SlotOf(c, index) == BitAnd(UInt(c.head - index - 1), buffer_size - 1)

At(c, index) == c.data[SlotOf(c, index)]

(***************************************************************************)
(* detect_clap_sequence.  The result is the returned flag, the ring as the *)
(* call leaves it, and the reads of the ring, in order, each as            *)
(* <<sequence_position, buffer_position>>.                                 *)
(***************************************************************************)
\* the lower bound never tested
TooLow_Missing(current_delay, sequence_position) == FALSE

TooLow(current_delay, sequence_position) ==
  current_delay < UInt(clap_sequence_timings[sequence_position + 1] - max_clap_deviation)

\* the upper bound taken as exclusive
TooHigh_Exclusive(current_delay, sequence_position) ==
  current_delay >= UInt(clap_sequence_timings[sequence_position + 1] + max_clap_deviation)

TooHigh(current_delay, sequence_position) ==
  current_delay > UInt(clap_sequence_timings[sequence_position + 1] + max_clap_deviation)

\* the limit tested one position late
PastLimit_OneLate(buffer_position) == buffer_position > ScanLimit + 1

PastLimit(buffer_position) == buffer_position > ScanLimit

\* the sum overwritten instead of accumulated
Accumulate_Overwrites(current_delay, sample) == UInt(sample)

\* current_delay += clap[buffer_position], in unsigned int
Accumulate(current_delay, sample) == UInt(current_delay + sample)

\* a match that leaves the ring as it is
OnMatch_Keeps(c) == c

\* the ring after a confirmed match
OnMatch(c) == clear(c, 0)

\* a failed scan that clears the ring as well
OnFail_Clears(c) == clear(c, 0)

\* the ring after a failed scan
OnFail(c) == c

RECURSIVE detect_clap_sequence(_, _, _, _, _)
RECURSIVE ScanLoop(_, _, _, _, _, _)

\* a scan that, on an overshoot, drops the sample it started from and tries
\* the next alignment
ScanLoop_Retries(c, sequence_position, buffer_position, can_skip, current_delay, read) ==
  IF PastLimit(buffer_position)
  THEN [ret |-> FALSE, clap |-> OnFail(c), read |-> read]
  ELSE LET d == Accumulate(current_delay, At(c, buffer_position))
           r == Append(read, <<sequence_position, buffer_position>>)
       IN  IF TooLow(d, sequence_position)
           THEN ScanLoop(c, sequence_position, buffer_position + 1, can_skip, d, r)
           ELSE IF TooHigh(d, sequence_position)
           THEN ScanLoop(c, sequence_position, buffer_position + 1, can_skip, 0, r)
           ELSE IF sequence_position = 0
           THEN [ret |-> TRUE, clap |-> OnMatch(c), read |-> r]
           ELSE detect_clap_sequence(c, sequence_position - 1,
                                     buffer_position + 1, can_skip, r)

\* the while (true) loop, entered with the current values of the locals
ScanLoop(c, sequence_position, buffer_position, can_skip, current_delay, read) ==
  IF PastLimit(buffer_position)
  THEN [ret |-> FALSE, clap |-> OnFail(c), read |-> read]
  ELSE LET d == Accumulate(current_delay, At(c, buffer_position))
           r == Append(read, <<sequence_position, buffer_position>>)
       IN  IF TooLow(d, sequence_position)
           THEN ScanLoop(c, sequence_position, buffer_position + 1, can_skip, d, r)
           ELSE IF TooHigh(d, sequence_position)
           THEN [ret |-> FALSE, clap |-> OnFail(c), read |-> r]
           ELSE IF sequence_position = 0
           THEN [ret |-> TRUE, clap |-> OnMatch(c), read |-> r]
           ELSE detect_clap_sequence(c, sequence_position - 1,
                                     buffer_position + 1, can_skip, r)

detect_clap_sequence(c, sequence_position, buffer_position, can_skip, read) ==
  ScanLoop(c, sequence_position, buffer_position, can_skip, 0, read)

(***************************************************************************)
(* on_sequence_detected                                                    *)
(***************************************************************************)
\* the latch set instead of flipped
Toggle_Sets(state) == TRUE

Toggle(state) == ~state

AngleFor(state) == IF state THEN SERVO_MIN_ANGLE ELSE SERVO_MAX_ANGLE

(***************************************************************************)
(* loop(): the admission test of a cycle                                   *)
(***************************************************************************)
\* a pulse of exactly the timeout length admitted
Admit_TimeoutIncluded(pulse, power) ==
  pulse <= ULTRASONIC_TIMEOUT /\ power < BROWNOUT

\* a reading of exactly the threshold admitted
Admit_ThresholdIncluded(pulse, power) ==
  pulse < ULTRASONIC_TIMEOUT /\ power <= BROWNOUT

Admit(pulse, power) == pulse < ULTRASONIC_TIMEOUT /\ power < BROWNOUT

Init ==
  /\ pc = "setup"
  /\ clap = EmptyBuffer
  /\ started = FALSE
  /\ last_clap_time = 0
  /\ claw_state = FALSE
  /\ servo_angle = -1
  /\ led = FALSE
  /\ pulse_duration = 0
  /\ rail = 0
  /\ admitted = FALSE
  /\ detected_sequence = FALSE
  /\ seen = EmptyBuffer
  /\ scan = <<>>
  /\ n_events = 0
  /\ history = <<>>
  /\ fresh = 0
  /\ targets = <<>>
  /\ trace = <<>>
  /\ matches = 0
  /\ flips = 0
  /\ servo_writes = 0

\* on_sequence_detected(), entered after `written` servo.write calls
on_sequence_detected(written) ==
  /\ claw_state' = Toggle(claw_state)
  /\ servo_angle' = AngleFor(claw_state')
  /\ flips' = flips + 1
  /\ servo_writes' = written + 1

\* setup(): servo.write(0), then one on_sequence_detected()
Setup ==
  /\ pc = "setup"
  /\ pc' = "loop"
  /\ led' = FALSE
  /\ on_sequence_detected(servo_writes + 1)
  /\ UNCHANGED <<clap, started, last_clap_time, pulse_duration, rail, admitted,
                 detected_sequence, seen, scan, n_events, history, fresh,
                 targets, trace, matches>>

\* a handler that returns right after acting on a match
Steps_ReturnsOnMatch(matched) ==
  IF matched
  THEN <<"insert", "detect", "toggle", "servo">>
  ELSE <<"insert", "detect", "led_high", "led_low">>

\* the steps of on_sound_detected in the order of its statements
Steps(matched) ==
  <<"insert", "detect">>
    \o (IF matched THEN <<"toggle", "servo">> ELSE <<>>)
    \o <<"led_high", "led_low">>

\* now - last_clap_time, on unsigned long (no wrap below 2^32)
Elapsed(now, previous) == now - previous

\* last_clap_time = now
Remember(now, previous) == now

\* the k-th components of a sequence of tuples
Column(q, k) == [i \in 1 .. Len(q) |-> q[i][k]]

\* on_sound_detected(), with the values millis() returns: `first` to the
\* static initialiser (used on the first call only) and `now` after it
on_sound_detected(first, now) ==
  LET previous == IF started THEN last_clap_time ELSE first
  IN  \E ring \in {insert(clap, Elapsed(now, previous))} :
      \E m \in {detect_clap_sequence(ring, clap_sequence_size - 2, 0, 0, <<>>)} :
      /\ started' = TRUE
      /\ last_clap_time' = Remember(now, last_clap_time)
      /\ seen' = ring
      /\ scan' = Column(m.read, 2)
      /\ targets' = Column(m.read, 1)
      /\ trace' = Steps(m.ret)
      /\ matches' = IF m.ret THEN matches + 1 ELSE matches
      /\ clap' = m.clap
      /\ detected_sequence' = m.ret
      /\ IF m.ret
         THEN on_sequence_detected(servo_writes)
         ELSE UNCHANGED <<claw_state, servo_angle, flips, servo_writes>>
      /\ led' = FALSE
      /\ n_events' = n_events + 1
      /\ history' = <<Elapsed(now, previous)>> \o history
      /\ fresh' = IF detected_sequence \/ ~started THEN 1 ELSE fresh + 1

\* the values millis() can return to an admitted cycle: <<first, now>>
Clock(D) ==
  IF started
  THEN {<<last_clap_time, last_clap_time + d>> : d \in D}
  ELSE {<<t, t + s>> : t \in StartTimes, s \in FirstSkew}

\* one pass of loop(), in a run of at most `limit` accepted sounds
Cycle(pulse, power, clock, limit) ==
  /\ pc = "loop"
  /\ pulse_duration' = pulse
  /\ rail' = power
  /\ admitted' = Admit(pulse, power)
  /\ UNCHANGED pc
  /\ IF Admit(pulse, power)
     THEN /\ n_events < limit
          /\ \E t \in clock : on_sound_detected(t[1], t[2])
     ELSE UNCHANGED <<clap, started, last_clap_time, claw_state, servo_angle,
                      led, detected_sequence, seen, scan, n_events, history,
                      fresh, targets, trace, matches, flips, servo_writes>>

LoopCycle(pulse, power, D) == Cycle(pulse, power, Clock(D), MaxEvents)

Next ==
  \/ Setup
  \/ \E pulse \in Pulses, power \in Rails : LoopCycle(pulse, power, Delays)

Spec == Init /\ [][Next]_vars

\* the same program, fed the delays of the worked scenarios
ScenarioNext ==
  \/ Setup
  \/ \E pulse \in Pulses, power \in Rails :
       LoopCycle(pulse, power, ScenarioDelays)

ScenarioSpec == Init /\ [][ScenarioNext]_vars

(***************************************************************************)
(* The program in sustained noise: a stream of sounds at one spacing,      *)
(* chosen with the second sound.                                           *)
(***************************************************************************)
NoiseClock ==
  IF Len(history) < 2
  THEN Clock(NoiseDelays)
  ELSE {<<last_clap_time, last_clap_time + history[1]>>}

NoiseNext ==
  \/ Setup
  \/ \E pulse \in Pulses, power \in Rails :
       Cycle(pulse, power, NoiseClock, MaxNoise)

NoiseSpec == Init /\ [][NoiseNext]_vars

(***************************************************************************)
(* The ring taken alone: inserts without a matcher call, so without a      *)
(* clear, past the point where head wraps.  The samples are distinct, so   *)
(* that every insert can be told from every other.                         *)
(***************************************************************************)
RingSamples(n) == IF n < FreeInserts THEN {n + 1, 2000 - n} ELSE {n + 1}

RingInsert(element) ==
  /\ n_events < MaxInserts
  /\ clap' = insert(clap, element)
  /\ history' = <<element>> \o history
  /\ n_events' = n_events + 1
  /\ UNCHANGED <<pc, started, last_clap_time, claw_state, servo_angle, led,
                 pulse_duration, rail, admitted, detected_sequence, seen, scan,
                 fresh, targets, trace, matches, flips, servo_writes>>

RingNext == \E element \in RingSamples(n_events) : RingInsert(element)

RingSpec == Init /\ [][RingNext]_vars

(***************************************************************************)
(* Vocabulary of the properties: true (unbounded) sums of ring samples and *)
(* the tolerance band of a target interval.                                *)
(***************************************************************************)
AllZero(c) == \A i \in Slots : c.data[i] = 0

RECURSIVE SumAges(_, _, _)
\* the arithmetic sum of the samples of ages from..to
SumAges(c, from, to) ==
  IF from > to THEN 0 ELSE At(c, from) + SumAges(c, from + 1, to)

InBand(sum, k) ==
  /\ sum >= clap_sequence_timings[k + 1] - max_clap_deviation
  /\ sum <= clap_sequence_timings[k + 1] + max_clap_deviation

OutOfBand(d, k) == ~InBand(d, k)

\* ages 0..a-1 sum to a value in the band of target 1 and ages a..b-1 to a
\* value in the band of target 0
Partition(c, a, b) ==
  /\ InBand(SumAges(c, 0, a - 1), 1)
  /\ InBand(SumAges(c, a, b - 1), 0)

\* the last accepted sound is the third of three sounds exactly 1000 ms and
\* 1000 ms apart
ExactPattern ==
  /\ admitted
  /\ Len(history) >= 3
  /\ history[1] = clap_sequence_timings[2]
  /\ history[2] = clap_sequence_timings[1]

\* C1 as stated: whatever came before, the third of three sounds exactly
\* 1000 ms apart is reported as a match and leaves all 128 slots at 0.
C1_ExactPatternMatches ==
  ExactPattern => (detected_sequence /\ AllZero(clap))

\* C1 as amended: the third of three sounds exactly 1000 ms apart is reported
\* as a match and leaves all 128 slots at 0, provided the second of them did
\* not itself complete a match (which clears the ring).
C1_ExactPatternMatchesUnlessJustCleared ==
  (ExactPattern /\ fresh >= 2) => (detected_sequence /\ AllZero(clap))

C1_Witness ==
  /\ ExactPattern
  /\ fresh >= 2
  /\ Len(history) >= 4
  /\ history[3] = 400
  /\ detected_sequence
  /\ AllZero(clap)

\* C2: when one of the two gaps of an otherwise exact pattern is a single
\* interval below 800 ms or above 1200 ms, the matcher called on the last of
\* the three sounds reports no match.
C2_SubstitutedGapNeverMatches ==
  ( /\ admitted
    /\ Len(history) >= 3
    /\ \/ history[1] = clap_sequence_timings[2] /\ OutOfBand(history[2], 0)
       \/ OutOfBand(history[1], 1) /\ history[2] = clap_sequence_timings[1] )
  => ~detected_sequence

\* C3 (absorption): when the samples since the ring was last cleared hold two
\* gaps within 1000 +- 200 ms, one of them split by extra sounds into
\* several samples, the matcher called on the last sound reports a match.
C3_NoiseIsAbsorbed ==
  ( /\ admitted
    /\ \E a \in 1 .. ScanLimit, b \in 3 .. (ScanLimit + 1) :
         a < b /\ b <= fresh /\ Partition(seen, a, b) )
  => detected_sequence

\* C4 (the "whenever such a partition exists" direction): when the samples of
\* ages 0..15 start with two consecutive runs whose sums lie within
\* 1000 +- 200 ms, the matcher returns true.
C4_AnyPartitionMatches ==
  ( /\ admitted
    /\ \E a \in 1 .. ScanLimit, b \in 2 .. (ScanLimit + 1) :
         a < b /\ Partition(seen, a, b) )
  => detected_sequence

\* C5: after the matcher has returned true, calling it again without a new
\* insert returns false, and every sample a match read was inserted after
\* the previous match (or after startup).
C5_MatchUsesOnlyNewSamples ==
  detected_sequence =>
    /\ ~detect_clap_sequence(clap, clap_sequence_size - 2, 0, 0, <<>>).ret
    /\ \A i \in 1 .. Len(scan) : scan[i] < fresh

\* a second match in one run, built from the sounds after the first
C5_Witness ==
  /\ admitted
  /\ detected_sequence
  /\ n_events = 5
  /\ fresh = 2
  /\ scan = <<0, 1>>

\* the running sum of ages from..to reaches the lower bound of the band only
\* with its last sample, and then sits exactly on one of the two bounds
OnBoundary(c, from, to, k) ==
  /\ SumAges(c, from, to - 1) < clap_sequence_timings[k + 1] - max_clap_deviation
  /\ SumAges(c, from, to) \in { clap_sequence_timings[k + 1] - max_clap_deviation,
                                clap_sequence_timings[k + 1] + max_clap_deviation }

\* C6: a gap sum of exactly 800 ms or exactly 1200 ms satisfies its gap: with
\* both gap sums on a boundary, in any combination, the matcher reports a
\* match.
C6_BoundsAreInclusive ==
  ( /\ admitted
    /\ \E a \in 1 .. ScanLimit, b \in 2 .. (ScanLimit + 1) :
         a < b /\ OnBoundary(seen, 0, a - 1, 1) /\ OnBoundary(seen, a, b - 1, 0) )
  => detected_sequence

\* the newest gap at the upper bound, the older one at the lower bound and
\* made of two samples
C6_Witness ==
  /\ admitted
  /\ detected_sequence
  /\ At(seen, 0) = 1200
  /\ At(seen, 1) = 400
  /\ OnBoundary(seen, 1, 2, 0)

\* C7: a call of the matcher that returns false leaves the ring's contents
\* and head as it found them, and calling it again on that ring returns
\* false again and again leaves the ring alone.
C7_NonMatchChangesNothing ==
  (admitted /\ ~detected_sequence) =>
    /\ clap = seen
    /\ ~detect_clap_sequence(clap, clap_sequence_size - 2, 0, 0, <<>>).ret
    /\ detect_clap_sequence(clap, clap_sequence_size - 2, 0, 0, <<>>).clap = clap

\* a failed scan of a ring holding three sounds, given up on an overshoot
C7_Witness ==
  /\ admitted
  /\ ~detected_sequence
  /\ fresh >= 3
  /\ At(clap, 0) = 1000
  /\ At(clap, 1) = 400
  /\ At(clap, 2) = 1000

\* what a cycle that admits no sound leaves alone
Untouched ==
  UNCHANGED <<clap, started, last_clap_time, claw_state, servo_angle,
              detected_sequence, n_events, history, flips, servo_writes>>

\* C8: a cycle whose pulse is at or above ULTRASONIC_TIMEOUT admits no event,
\* whatever the power-rail reading: on_sound_detected is not called and the
\* ring, the last-event time and the latch stay as they were.
C8_TimeoutNeverAdmitted ==
  [][ (pc = "loop" /\ pulse_duration' >= ULTRASONIC_TIMEOUT)
        => (~admitted' /\ Untouched) ]_vars

\* a timeout-length pulse turned away although the rail reading would pass
C8_Witness ==
  /\ pulse_duration >= ULTRASONIC_TIMEOUT
  /\ rail < BROWNOUT
  /\ ~admitted
  /\ n_events >= 1

\* C9 as stated: a sound is admitted only with a power-rail reading above
\* BROWNOUT; a short pulse with a reading at or below it is never admitted.
C9_AdmittedOnlyAboveBrownout ==
  admitted => rail > BROWNOUT

\* C9 as amended: a sound is admitted only with a power-rail reading below
\* BROWNOUT; a cycle with a short pulse and a reading at or above BROWNOUT
\* does not call on_sound_detected.
C9_AdmittedOnlyBelowBrownout ==
  [][ (pc = "loop" /\ rail' >= BROWNOUT) => (~admitted' /\ Untouched) ]_vars

\* a short pulse turned away for a reading of exactly BROWNOUT
C9_Witness ==
  /\ pulse_duration < ULTRASONIC_TIMEOUT
  /\ rail = BROWNOUT
  /\ ~admitted
  /\ n_events >= 1

\* C10: from startup, sounds at 0, 1020 and 2050 ms give no match on the
\* first and second sound and a match on the third, after which all 128
\* slots are 0.
C10_ThreeClapScenario ==
  /\ (Len(history) = 1 /\ history[1] \in FirstSkew) => ~detected_sequence
  /\ (Len(history) = 2 /\ history[1] = 1020 /\ history[2] \in FirstSkew)
       => ~detected_sequence
  /\ ( /\ Len(history) = 3
       /\ history[1] = 1030
       /\ history[2] = 1020
       /\ history[3] \in FirstSkew )
       => (detected_sequence /\ AllZero(clap))

C10_Witness ==
  /\ admitted
  /\ history = <<1030, 1020, 0>>
  /\ last_clap_time = 500 + 2050
  /\ detected_sequence
  /\ AllZero(clap)

\* C11: from startup, sounds at 0, 1020, 1450 (noise) and 2050 ms give no
\* match on the first three sounds and a match on the fourth: the interval of
\* the noise sound is absorbed into the newest gap sum (600 + 430 = 1030).
C11_NoiseScenario ==
  /\ (Len(history) = 1 /\ history[1] \in FirstSkew) => ~detected_sequence
  /\ (Len(history) = 2 /\ history[1] = 1020 /\ history[2] \in FirstSkew)
       => ~detected_sequence
  /\ ( /\ Len(history) = 3
       /\ history[1] = 430
       /\ history[2] = 1020
       /\ history[3] \in FirstSkew )
       => ~detected_sequence
  /\ ( /\ Len(history) = 4
       /\ history[1] = 600
       /\ history[2] = 430
       /\ history[3] = 1020
       /\ history[4] \in FirstSkew )
       => (detected_sequence /\ scan = <<0, 1, 2>> /\ targets = <<1, 1, 0>>)

C11_Witness ==
  /\ admitted
  /\ history = <<600, 430, 1020, 0>>
  /\ last_clap_time = 500 + 2050
  /\ detected_sequence
  /\ matches = 1

\* C12: the latch flips once in setup() and once per matcher success and at
\* no other time, each flip with exactly one servo command (setup() issues
\* servo.write(0) before its flip): after setup and k matches the latch is
\* true iff k is even, and the servo was last sent SERVO_MIN_ANGLE when the
\* latch is true and SERVO_MAX_ANGLE when it is false.
C12_LatchFollowsMatches ==
  /\ pc = "setup" => (flips = 0 /\ servo_writes = 0 /\ ~claw_state)
  /\ pc = "loop" =>
       /\ flips = matches + 1
       /\ servo_writes = flips + 1
       /\ claw_state <=> (matches % 2 = 0)
       /\ servo_angle = IF claw_state THEN SERVO_MIN_ANGLE ELSE SERVO_MAX_ANGLE

\* both positions have been commanded by matches: two matches in one run
C12_Witness ==
  /\ matches = 2
  /\ flips = 3
  /\ claw_state
  /\ servo_angle = SERVO_MIN_ANGLE

\* C13: after any number of inserts with no clear between them, also past
\* the wrap of head at 128, operator[] with index i returns the sample of
\* the (i+1)-th most recent insert for every i below min(inserts, 128); the
\* 128 indices name 128 different slots, so an insert into a full ring
\* replaces the oldest sample and no other.
C13_RingContract ==
  LET n == Len(history)
      held == IF n < buffer_size THEN n ELSE buffer_size
  IN  /\ \A i \in 0 .. (held - 1) : At(clap, i) = history[i + 1]
      /\ \A i \in held .. (buffer_size - 1) : At(clap, i) = 0
      /\ Cardinality({SlotOf(clap, i) : i \in Slots}) = buffer_size
      /\ clap.head \in Slots

\* two samples past the wrap: the newest is in slot 1, the oldest kept one
\* is the 128th most recent
C13_Witness ==
  /\ Len(history) = 130
  /\ clap.head = 2
  /\ clap.data[1] = history[1]
  /\ At(clap, 0) = history[1]
  /\ At(clap, 127) = history[128]
  /\ clap.data[2] = history[128]

RECURSIVE SumSeq(_)
SumSeq(q) == IF q = <<>> THEN 0 ELSE Head(q) + SumSeq(Tail(q))

\* the time from the first accepted sound to the last
StreamLength == IF history = <<>> THEN 0 ELSE SumSeq(SubSeq(history, 1, Len(history) - 1))

\* C14: a stream of closely spaced sounds (every interval positive and at
\* most 400 ms) that is long enough makes the matcher report a match: once
\* the stream has lasted as long as the whole pattern at the upper end of its
\* tolerance (2 * 1200 ms), a match has been reported.
C14_SustainedNoiseMatches ==
  StreamLength >= 2 * (clap_sequence_timings[1] + max_clap_deviation)
    => matches >= 1

(***************************************************************************)
(* The running gap sum as the program holds it: the sum of the samples of  *)
(* ages from..to in unsigned int.  A gap started at age `from` is decided  *)
(* at the first age, up to the scan limit, where that sum is no longer     *)
(* below the lower bound of target k.                                      *)
(***************************************************************************)
GapSum(c, from, to) == UInt(SumAges(c, from, to))

Low(k) == clap_sequence_timings[k + 1] - max_clap_deviation

High(k) == clap_sequence_timings[k + 1] + max_clap_deviation

Reaching(c, from, k) == {p \in from .. ScanLimit : GapSum(c, from, p) >= Low(k)}

Decided(c, from, k) ==
  CHOOSE p \in Reaching(c, from, k) : \A q \in Reaching(c, from, k) : p <= q

Overshoots(c, from, k) ==
  /\ Reaching(c, from, k) # {}
  /\ GapSum(c, from, Decided(c, from, k)) > High(k)

Closes(c, from, k) ==
  /\ Reaching(c, from, k) # {}
  /\ GapSum(c, from, Decided(c, from, k)) <= High(k)

\* the age at which the scan of ring c meets an overshoot, or -1
OvershootAge(c) ==
  IF Overshoots(c, 0, 1) THEN Decided(c, 0, 1)
  ELSE IF Closes(c, 0, 1) /\ Overshoots(c, Decided(c, 0, 1) + 1, 0)
       THEN Decided(c, Decided(c, 0, 1) + 1, 0)
       ELSE -1

\* C15: when the running sum of a gap first reaches the lower bound of its
\* target at a value above the upper bound, the call returns false, reads no
\* sample beyond that one and leaves the ring as it was; so for sounds at 0,
\* 1020 and 2500 ms (newest interval 1480 ms).
C15_OvershootIsFinal ==
  /\ (admitted /\ OvershootAge(seen) >= 0) =>
       /\ ~detected_sequence
       /\ clap = seen
       /\ scan = [i \in 1 .. (OvershootAge(seen) + 1) |-> i - 1]
  /\ (Len(history) = 3 /\ history[1] = 1480 /\ history[2] = 1020)
       => ~detected_sequence

\* the older gap overshoots after the newest one was satisfied
C15_Witness ==
  /\ admitted
  /\ history = <<1020, 1480, 1020, 1020, 0>>
  /\ OvershootAge(seen) = 1
  /\ ~detected_sequence

\* ring c with every sample older than age 15 replaced by v
Disturbed(c, v) ==
  [c EXCEPT !.data =
     [s \in Slots |-> IF \E i \in 0 .. 15 : SlotOf(c, i) = s THEN c.data[s] ELSE v]]

\* C16: a call of the matcher reads only ring ages 0..15 (slots of the
\* array) and targets 0..1; it returns false when the age cursor passes 15
\* with the current gap still below its lower bound; and the samples older
\* than age 15 have no influence on its result.
C16_ScanStaysWithinLimit ==
  admitted =>
    /\ \A i \in 1 .. Len(scan) :
         /\ scan[i] \in 0 .. 15
         /\ SlotOf(seen, scan[i]) \in Slots
         /\ targets[i] \in 0 .. 1
         /\ targets[i] + 1 \in DOMAIN clap_sequence_timings
    /\ ( /\ Closes(seen, 0, 1)
         /\ Reaching(seen, Decided(seen, 0, 1) + 1, 0) = {} )
         => (~detected_sequence /\ scan[Len(scan)] = 15)
    /\ Reaching(seen, 0, 1) = {} => (~detected_sequence /\ scan[Len(scan)] = 15)
    /\ \A v \in {0, 400, 1000} :
         detect_clap_sequence(Disturbed(seen, v), clap_sequence_size - 2,
                              0, 0, <<>>).ret = detected_sequence

\* the cursor passes 15 in the older gap while samples older than age 15
\* are in the ring
C16_Witness ==
  /\ admitted
  /\ n_events >= 20
  /\ At(seen, 16) = 80
  /\ scan[Len(scan)] = 15
  /\ targets[Len(targets)] = 0
  /\ ~detected_sequence

\* the number of times step s occurs in the last call of on_sound_detected
Occurrences(s) == Cardinality({i \in 1 .. Len(trace) : trace[i] = s})

C18_ThreeNewSoundsPerMatch ==
  (admitted /\ detected_sequence) => fresh >= clap_sequence_size

\* C18 as amended: every match is built from interval samples recorded after
\* the previous match (or after startup); no match is reported before the
\* third accepted sound since startup, and after a match at least two
\* further accepted sounds are needed before the next one, the sound that
\* completed a match serving as the first sound of the next pattern.
C18_TwoNewSoundsPerLaterMatch ==
  (admitted /\ detected_sequence) =>
    /\ matches = 1 => fresh >= clap_sequence_size
    /\ matches > 1 => fresh >= clap_sequence_size - 1
    /\ Len(scan) <= fresh

\* sounds 1000 ms apart: the third matches, and the fifth matches again with
\* the third as its first sound
C18_Witness ==
  /\ admitted
  /\ detected_sequence
  /\ history = <<1000, 1000, 1000, 1000, 0>>
  /\ matches = 2
  /\ fresh = 2

\* C19: every call detect_clap_sequence(1, 0, 0) returns, for every ring
\* content, an all-zero ring included: each read moves the age cursor on by
\* one, at most 16 samples are read in all, the recursion goes at most one
\* level deep (target 1, then target 0), and after the cycle the program is
\* back in loop().
C19_ScanTerminates ==
  admitted =>
    /\ Len(scan) >= 1
    /\ Len(scan) <= 16
    /\ scan[1] = 0
    /\ \A i \in 1 .. (Len(scan) - 1) :
         /\ scan[i + 1] = scan[i] + 1
         /\ targets[i + 1] \in {targets[i], targets[i] - 1}
    /\ targets[1] = clap_sequence_size - 2
    /\ targets[1] - targets[Len(targets)] <= 1
    /\ pc = "loop"

\* the first accepted sound: the ring holds only zeros and the scan runs to
\* the limit
C19_Witness ==
  /\ admitted
  /\ n_events = 1
  /\ AllZero(seen)
  /\ Len(scan) = 16
  /\ ~detected_sequence

\* C20: the gap sums of a match are the arithmetic sums of the samples read,
\* without wraparound: no sample of 65536 ms or more is among the samples a
\* match was built from, and each of its two gap sums, taken as integers,
\* lies within 1000 +- 200 ms.
C20_NoWraparoundInMatch ==
  (admitted /\ detected_sequence) =>
    /\ \A i \in 1 .. Len(scan) : At(seen, scan[i]) < UIntMod
    /\ \E a \in 1 .. Len(scan) : Partition(seen, a, Len(scan))

====
